---- MODULE Spec2Model ----
(***************************************************************************)
(* T-Flow AI medical triage: the triage decision pipeline of               *)
(* backend/triage_core.py (call_groq, rule_based_triage, triage_patient,   *)
(* flag_vitals) over an opaque language-model provider and an opaque       *)
(* store.  Python strings are sequences of one-character strings, so that  *)
(* strip, lower, capitalize, split and the substring test are computed as  *)
(* the code computes them.                                                 *)
(***************************************************************************)
EXTENDS Integers, Sequences, FiniteSets, TLC

\* ------------------------------------------------------------------------
\* Bounds of the model
\* ------------------------------------------------------------------------
\* number of fragments a symptom text of the classifier check is built from
MaxFrags == 2
\* number of lines a provider response of the parser check is built from
MaxLines == 2
\* number of calls of triage_patient / flag_vitals in one behaviour
MaxCalls == 2

\* ------------------------------------------------------------------------
\* Python str operations
\* ------------------------------------------------------------------------
UpperChars ==
    <<"A", "B", "C", "D", "E", "F", "G", "H", "I", "J", "K", "L", "M",
      "N", "O", "P", "Q", "R", "S", "T", "U", "V", "W", "X", "Y", "Z">>

LowerChars ==
    <<"a", "b", "c", "d", "e", "f", "g", "h", "i", "j", "k", "l", "m",
      "n", "o", "p", "q", "r", "s", "t", "u", "v", "w", "x", "y", "z">>

\* the characters str.strip() removes
Whitespace == {" ", "\t", "\n", "\r", "\f"}

LowerChar(c) ==
    IF \E i \in 1..Len(UpperChars) : UpperChars[i] = c
    THEN LowerChars[CHOOSE i \in 1..Len(UpperChars) : UpperChars[i] = c]
    ELSE c

UpperChar(c) ==
    IF \E i \in 1..Len(LowerChars) : LowerChars[i] = c
    THEN UpperChars[CHOOSE i \in 1..Len(LowerChars) : LowerChars[i] = c]
    ELSE c

\* str.lower()
Lower(s) == [i \in 1..Len(s) |-> LowerChar(s[i])]

\* str.capitalize(): first character upper-cased, the rest lower-cased
Capitalize(s) ==
    [i \in 1..Len(s) |-> IF i = 1 THEN UpperChar(s[i]) ELSE LowerChar(s[i])]

\* str.strip()
Strip(s) ==
    LET idx == {i \in 1..Len(s) : s[i] \notin Whitespace}
    IN  IF idx = {} THEN <<>>
        ELSE LET lo == CHOOSE i \in idx : \A j \in idx : i <= j
                 hi == CHOOSE i \in idx : \A j \in idx : j <= i
             IN  SubSeq(s, lo, hi)

\* str.split('\n'): the pieces between newlines, empty pieces kept
RECURSIVE SplitLines(_)
SplitLines(s) ==
    LET nl == {i \in 1..Len(s) : s[i] = "\n"}
    IN  IF nl = {} THEN <<s>>
        ELSE LET k == CHOOSE i \in nl : \A j \in nl : i <= j
             IN  <<SubSeq(s, 1, k - 1)>> \o SplitLines(SubSeq(s, k + 1, Len(s)))

\* keyword in text
Contains(text, kw) ==
    \E i \in 1..(Len(text) - Len(kw) + 1) : SubSeq(text, i, i + Len(kw) - 1) = kw

\* "\n".join(lines)
RECURSIVE JoinWith(_, _)
JoinWith(parts, sep) ==
    IF parts = <<>> THEN <<>>
    ELSE IF Len(parts) = 1 THEN parts[1]
    ELSE parts[1] \o sep \o JoinWith(Tail(parts), sep)

\* ------------------------------------------------------------------------
\* The four triage labels
\* ------------------------------------------------------------------------
Critical ==
    <<"C", "r", "i", "t", "i", "c", "a", "l">>

Urgent ==
    <<"U", "r", "g", "e", "n", "t">>

Moderate ==
    <<"M", "o", "d", "e", "r", "a", "t", "e">>

Low ==
    <<"L", "o", "w">>

Labels == {Critical, Urgent, Moderate, Low}

\* ------------------------------------------------------------------------
\* call_groq: the AI classifier adapter
\* ------------------------------------------------------------------------
lv_critical ==
    <<"c", "r", "i", "t", "i", "c", "a", "l">>

lv_urgent ==
    <<"u", "r", "g", "e", "n", "t">>

lv_moderate ==
    <<"m", "o", "d", "e", "r", "a", "t", "e">>

lv_low ==
    <<"l", "o", "w">>

valid_levels == <<lv_critical, lv_urgent, lv_moderate, lv_low>>

\* outcomes of groq_client.chat.completions.create(...) and of reading
\* choices[0].message.content: an exception of the client (network error,
\* timeout), an answer with no choice, a choice without content, or a text
ProviderFailureKinds == {"network_error", "timeout", "no_choices", "none_content"}

Raised == [raised |-> TRUE, value |-> <<>>]

Returned(v) == [raised |-> FALSE, value |-> v]

\* line_clean in valid_levels
InValidLevels(line_clean) ==
    \E k \in 1..Len(valid_levels) : valid_levels[k] = line_clean

\* for line in reversed(lines): the first line, from the end, that is a level
RECURSIVE FindLevelLine(_, _)
FindLevelLine(lines, i) ==
    IF i = 0 THEN 0
    ELSE IF InValidLevels(Lower(Strip(lines[i]))) THEN i
    ELSE FindLevelLine(lines, i - 1)

\* for line in reversed(lines): the first line, from the end, that is not blank
RECURSIVE FindNonEmptyLine(_, _)
FindNonEmptyLine(lines, i) ==
    IF i = 0 THEN 0
    ELSE IF Strip(lines[i]) # <<>> THEN i
    ELSE FindNonEmptyLine(lines, i - 1)

LevelLineIndex_first(lines) ==
    IF \E i \in 1..Len(lines) : InValidLevels(Lower(Strip(lines[i])))
    THEN CHOOSE i \in 1..Len(lines) :
            /\ InValidLevels(Lower(Strip(lines[i])))
            /\ \A j \in 1..(i - 1) : ~InValidLevels(Lower(Strip(lines[j])))
    ELSE 0

LevelLineIndex(lines) == FindLevelLine(lines, Len(lines))

NonEmptyLineIndex(lines) == FindNonEmptyLine(lines, Len(lines))

\* the text of the last non-empty line as call_groq returns it
FallbackLine_raw(line) == Strip(line)

FallbackLine(line) == Capitalize(Lower(Strip(line)))

\* the body of the try block once the provider has answered with a text
ExtractLevel(content) ==
    LET result == Strip(content)
    IN  IF result = <<>> THEN Raised
        ELSE LET lines == SplitLines(result)
                 m == LevelLineIndex(lines)
                 n == NonEmptyLineIndex(lines)
             IN  IF m # 0 THEN Returned(Capitalize(Lower(Strip(lines[m]))))
                 ELSE IF n # 0 THEN Returned(FallbackLine(lines[n]))
                 ELSE Returned(Capitalize(result))

\* except Exception as e: raise Exception(f"Groq API error: {str(e)}")
OnGroqException_default(attempt) ==
    IF attempt.raised THEN Returned(Moderate) ELSE attempt

OnGroqException(attempt) ==
    IF attempt.raised THEN Raised ELSE attempt

call_groq(outcome) ==
    OnGroqException(IF outcome.kind \in ProviderFailureKinds THEN Raised
                    ELSE ExtractLevel(outcome.content))

\* ------------------------------------------------------------------------
\* rule_based_triage: the rule-based classifier
\* ------------------------------------------------------------------------
kw_seizure ==
    <<"s", "e", "i", "z", "u", "r", "e">>

kw_loss_of_consciousness ==
    <<"l", "o", "s", "s", " ", "o", "f", " ", "c", "o", "n", "s", "c", "i",
      "o", "u", "s", "n", "e", "s", "s">>

kw_coma ==
    <<"c", "o", "m", "a">>

kw_vomiting ==
    <<"v", "o", "m", "i", "t", "i", "n", "g">>

kw_blurred_vision ==
    <<"b", "l", "u", "r", "r", "e", "d", " ", "v", "i", "s", "i", "o", "n">>

kw_slurred_speech ==
    <<"s", "l", "u", "r", "r", "e", "d", " ", "s", "p", "e", "e", "c", "h">>

kw_headache ==
    <<"h", "e", "a", "d", "a", "c", "h", "e">>

kw_neck_pain ==
    <<"n", "e", "c", "k", " ", "p", "a", "i", "n">>

kw_dizziness ==
    <<"d", "i", "z", "z", "i", "n", "e", "s", "s">>

kw_mild_pain ==
    <<"m", "i", "l", "d", " ", "p", "a", "i", "n">>

kw_tiredness ==
    <<"t", "i", "r", "e", "d", "n", "e", "s", "s">>

levels_low_first ==
    << [level |-> Low, keywords |-> <<kw_dizziness, kw_mild_pain, kw_tiredness>>],
       [level |-> Moderate, keywords |-> <<kw_headache, kw_neck_pain>>],
       [level |-> Urgent,
        keywords |-> <<kw_vomiting, kw_blurred_vision, kw_slurred_speech>>],
       [level |-> Critical,
        keywords |-> <<kw_seizure, kw_loss_of_consciousness, kw_coma>>] >>

levels ==
    << [level |-> Critical,
        keywords |-> <<kw_seizure, kw_loss_of_consciousness, kw_coma>>],
       [level |-> Urgent,
        keywords |-> <<kw_vomiting, kw_blurred_vision, kw_slurred_speech>>],
       [level |-> Moderate, keywords |-> <<kw_headache, kw_neck_pain>>],
       [level |-> Low, keywords |-> <<kw_dizziness, kw_mild_pain, kw_tiredness>>] >>

\* any(keyword in text for keyword in level_info["keywords"])
AnyKeyword(text, level_info) ==
    \E k \in 1..Len(level_info.keywords) : Contains(text, level_info.keywords[k])

DefaultLevel_low == Low

\* return "Moderate" after the loop
DefaultLevel == Moderate

\* for level_info in levels: ... return level_info["level"]
RECURSIVE FirstMatchingLevel(_, _)
FirstMatchingLevel(text, i) ==
    IF i > Len(levels) THEN DefaultLevel
    ELSE IF AnyKeyword(text, levels[i]) THEN levels[i].level
    ELSE FirstMatchingLevel(text, i + 1)

rule_based_triage_case_sensitive(symptoms_text) ==
    FirstMatchingLevel(symptoms_text, 1)

rule_based_triage(symptoms_text) == FirstMatchingLevel(Lower(symptoms_text), 1)

\* ------------------------------------------------------------------------
\* flag_vitals: the vitals evaluator
\* ------------------------------------------------------------------------
PulseFlag_inclusive(vitals) == vitals.pulse <= 60 \/ vitals.pulse > 100

\* pulse_flag = vitals['pulse'] < 60 or vitals['pulse'] > 100
PulseFlag(vitals) == vitals.pulse < 60 \/ vitals.pulse > 100

\* systolic_flag = vitals['systolicBP'] < 90 or vitals['systolicBP'] > 160
SystolicFlag(vitals) == vitals.systolicBP < 90 \/ vitals.systolicBP > 160

\* diastolic_flag = vitals['diastolicBP'] < 60 or vitals['diastolicBP'] > 100
DiastolicFlag(vitals) == vitals.diastolicBP < 60 \/ vitals.diastolicBP > 100

AnyFlag_no_diastolic(pulse_flag, systolic_flag, diastolic_flag) ==
    pulse_flag \/ systolic_flag

\* any_flag = pulse_flag or systolic_flag or diastolic_flag
AnyFlag(pulse_flag, systolic_flag, diastolic_flag) ==
    pulse_flag \/ systolic_flag \/ diastolic_flag

\* the four locals of flag_vitals
ComputeFlags(vitals) ==
    [ pulse_flag |-> PulseFlag(vitals),
      systolic_flag |-> SystolicFlag(vitals),
      diastolic_flag |-> DiastolicFlag(vitals),
      any_flag |-> AnyFlag(PulseFlag(vitals), SystolicFlag(vitals),
                           DiastolicFlag(vitals)) ]

\* the 'flags' dict of a result, built from the four locals
FlagsDict(f) ==
    [ pulse_flag |-> f.pulse_flag,
      systolic_flag |-> f.systolic_flag,
      diastolic_flag |-> f.diastolic_flag,
      any_flag |-> f.any_flag ]

\* ------------------------------------------------------------------------
\* The store and the results
\* ------------------------------------------------------------------------
\* Python's None, for a record_id (store ids start at 1)
None == 0

\* a key that a result dict does not have
Absent == "<absent>"

StoreErrorMarker == "Failed to store in database"

\* patient metadata: opaque values; NoPatientInfo is an argument left None
NoPatientInfo == "None"

EmptyPatientInfo == "{}"

\* if patient_info is None: patient_info = {}
DefaultPatientInfo(patient_info) ==
    IF patient_info = NoPatientInfo THEN EmptyPatientInfo ELSE patient_info

\* outcomes of supabase.table(t).insert(r).execute(): a row comes back, the
\* call raises, or it returns with no row in data.data
StoreOutcomes == {"ok", "raise", "no_row"}

\* the row the store returns for an inserted record: id and created_at are
\* assigned by the store
StoredRow(record, t) == [id |-> t, created_at |-> [by |-> "store", at |-> t]] @@ record

\* data.data after the insert; Raised-like marker when execute() raises
InsertAttempt(record, outcome, t) ==
    [ raised |-> (outcome = "raise"),
      data |-> IF outcome = "ok" THEN <<StoredRow(record, t)>> ELSE <<>> ]

\* datetime.now().isoformat()
WallClock(t) == [by |-> "datetime.now", at |-> t]

\* the insert payload of triage_patient
TriageRecord_no_metadata(symptoms_text, triage_level, patient_info, use_ai) ==
    [ symptoms |-> symptoms_text,
      triage_level |-> triage_level,
      patient_info |-> EmptyPatientInfo,
      use_ai |-> use_ai ]

TriageRecord_path_rule_based(symptoms_text, triage_level, patient_info, use_ai) ==
    [ symptoms |-> symptoms_text,
      triage_level |-> triage_level,
      patient_info |-> patient_info,
      use_ai |-> FALSE ]

TriageRecord(symptoms_text, triage_level, patient_info, use_ai) ==
    [ symptoms |-> symptoms_text,
      triage_level |-> triage_level,
      patient_info |-> patient_info,
      use_ai |-> use_ai ]

TriageStored_wall_clock(triage_level, attempt) ==
    IF attempt.raised \/ attempt.data = <<>> THEN Raised
    ELSE Returned([ triage_level |-> triage_level,
                    record_id |-> attempt.data[1].id,
                    timestamp |-> WallClock(attempt.data[1].created_at.at),
                    data |-> <<attempt.data[1]>>,
                    error |-> Absent ])

\* the return of the try block of triage_patient; data.data[0] raises
\* IndexError when there is no row
TriageStored(triage_level, attempt) ==
    IF attempt.raised \/ attempt.data = <<>> THEN Raised
    ELSE Returned([ triage_level |-> triage_level,
                    record_id |-> attempt.data[1].id,
                    timestamp |-> attempt.data[1].created_at,
                    data |-> <<attempt.data[1]>>,
                    error |-> Absent ])

TriageStoreFailed_relabel(triage_level, t) ==
    [ triage_level |-> DefaultLevel,
      record_id |-> None,
      timestamp |-> WallClock(t),
      data |-> <<>>,
      error |-> StoreErrorMarker ]

\* the return of the except block of triage_patient
TriageStoreFailed(triage_level, t) ==
    [ triage_level |-> triage_level,
      record_id |-> None,
      timestamp |-> WallClock(t),
      data |-> <<>>,
      error |-> StoreErrorMarker ]

\* the insert payload of flag_vitals
VitalsRecord(vitals, f, patient_info) ==
    [ pulse |-> vitals.pulse,
      systolic_bp |-> vitals.systolicBP,
      diastolic_bp |-> vitals.diastolicBP,
      pulse_flag |-> f.pulse_flag,
      systolic_flag |-> f.systolic_flag,
      diastolic_flag |-> f.diastolic_flag,
      any_flag |-> f.any_flag,
      patient_info |-> patient_info ]

VitalsStored_no_row_accepted(f, attempt) ==
    IF attempt.raised THEN Raised
    ELSE IF attempt.data = <<>>
    THEN Returned([ flags |-> FlagsDict(f),
                    record_id |-> None,
                    timestamp |-> WallClock(0),
                    data |-> <<>>,
                    error |-> Absent ])
    ELSE Returned([ flags |-> FlagsDict(f),
                    record_id |-> attempt.data[1].id,
                    timestamp |-> attempt.data[1].created_at,
                    data |-> <<attempt.data[1]>>,
                    error |-> Absent ])

\* the return of the try block of flag_vitals
VitalsStored(f, attempt) ==
    IF attempt.raised \/ attempt.data = <<>> THEN Raised
    ELSE Returned([ flags |-> FlagsDict(f),
                    record_id |-> attempt.data[1].id,
                    timestamp |-> attempt.data[1].created_at,
                    data |-> <<attempt.data[1]>>,
                    error |-> Absent ])

VitalsStoreFailed_no_error(f, t) ==
    [ flags |-> FlagsDict(f),
      record_id |-> None,
      timestamp |-> WallClock(t),
      data |-> <<>>,
      error |-> Absent ]

\* the return of the except block of flag_vitals
VitalsStoreFailed(f, t) ==
    [ flags |-> FlagsDict(f),
      record_id |-> None,
      timestamp |-> WallClock(t),
      data |-> <<>>,
      error |-> StoreErrorMarker ]

\* ------------------------------------------------------------------------
\* triage_patient: the choice of the label
\* ------------------------------------------------------------------------
UsesAi_always(use_ai) == TRUE

\* if use_ai:
UsesAi(use_ai) == use_ai

AiFallback_default(symptoms_text) == Returned(DefaultLevel)

AiFallback_reraise(symptoms_text) == Raised

\* except Exception as e: triage_level = rule_based_triage(symptoms_text)
AiFallback(symptoms_text) == Returned(rule_based_triage(symptoms_text))

\* else: triage_level = rule_based_triage(symptoms_text)
RulePath(symptoms_text) == rule_based_triage(symptoms_text)

\* except Exception as error: return {...} in triage_patient
OnTriageStoreError(triage_level, t) == Returned(TriageStoreFailed(triage_level, t))

OnVitalsStoreError_reraise(f, t) == Raised

\* except Exception as error: return {...} in flag_vitals
OnVitalsStoreError(f, t) == Returned(VitalsStoreFailed(f, t))

\* ------------------------------------------------------------------------
\* Inputs
\* ------------------------------------------------------------------------
t_mild_headache ==
    <<"m", "i", "l", "d", " ", "h", "e", "a", "d", "a", "c", "h", "e">>

t_seizure_and_tiredness ==
    <<"s", "e", "i", "z", "u", "r", "e", " ", "a", "n", "d", " ", "t", "i",
      "r", "e", "d", "n", "e", "s", "s">>

t_generally_unwell ==
    <<"p", "a", "t", "i", "e", "n", "t", " ", "f", "e", "e", "l", "s", " ",
      "g", "e", "n", "e", "r", "a", "l", "l", "y", " ", "u", "n", "w", "e",
      "l", "l">>

fr_SEIZURE ==
    <<"S", "E", "I", "Z", "U", "R", "E">>

fr_Headache ==
    <<"H", "e", "a", "d", "a", "c", "h", "e">>

fr_comatose ==
    <<"c", "o", "m", "a", "t", "o", "s", "e">>

\* "seizure" written with U+017F (long s), which str.lower() leaves alone and
\* str.upper() turns into "S"
fr_long_s_eizure ==
    <<"U+017F", "e", "i", "z", "u", "r", "e">>

fr_mild ==
    <<"m", "i", "l", "d">>

fr_pain ==
    <<"p", "a", "i", "n">>

fr_fever ==
    <<"f", "e", "v", "e", "r">>

fr_and ==
    <<"a", "n", "d">>

\* pieces of the symptom texts the classifier is checked on: every keyword,
\* keywords in other cases or inside a longer word, words that are no keyword
Fragments ==
    { kw_seizure, kw_loss_of_consciousness, kw_coma, kw_vomiting,
      kw_blurred_vision, kw_slurred_speech, kw_headache, kw_neck_pain,
      kw_dizziness, kw_mild_pain, kw_tiredness,
      fr_SEIZURE, fr_Headache, fr_comatose, fr_long_s_eizure, fr_mild, fr_pain, fr_fever, fr_and,
      t_mild_headache, t_seizure_and_tiredness, t_generally_unwell }

SeqsUpTo(S, n) == UNION {[1..k -> S] : k \in 1..n}

RuleTexts == {JoinWith(fs, <<" ">>) : fs \in SeqsUpTo(Fragments, MaxFrags)}

ln_Critical ==
    <<"C", "r", "i", "t", "i", "c", "a", "l">>

ln_urgent ==
    <<"u", "r", "g", "e", "n", "t">>

ln_LOW_padded ==
    <<" ", "L", "O", "W", " ", "\r">>

ln_Moderate ==
    <<"M", "o", "d", "e", "r", "a", "t", "e">>

ln_empty ==
    <<>>

ln_blank ==
    <<" ", "\t">>

ln_High ==
    <<"H", "i", "g", "h">>

ln_i_think_LOW ==
    <<"i", " ", "t", "h", "i", "n", "k", " ", "L", "O", "W">>

ln_Critical_dot ==
    <<"C", "r", "i", "t", "i", "c", "a", "l", ".">>

\* lines of the provider responses the adapter is checked on
ResponseLines ==
    { ln_Critical, ln_urgent, ln_LOW_padded, ln_Moderate, ln_empty, ln_blank,
      ln_High, ln_i_think_LOW, ln_Critical_dot }

ProviderFailures == {[kind |-> k] : k \in ProviderFailureKinds}

Content(c) == [kind |-> "content", content |-> c]

ParserOutcomes ==
    ProviderFailures \cup
    {Content(JoinWith(ls, <<"\n">>)) : ls \in SeqsUpTo(ResponseLines, MaxLines)}

\* provider outcomes of the calls of triage_patient
ProviderOutcomes ==
    { [kind |-> "timeout"], Content(ln_blank), Content(ln_High),
      Content(JoinWith(<<ln_i_think_LOW, ln_urgent, ln_empty>>, <<"\n">>)) }

AgePatientInfo == "{'age': 45}"

PatientInfos == {NoPatientInfo, EmptyPatientInfo, AgePatientInfo}

\* the calls of triage_patient: (symptoms_text, patient_info, use_ai)
TriageCalls ==
    { <<t_mild_headache, EmptyPatientInfo, TRUE>>,
      <<t_mild_headache, NoPatientInfo, FALSE>>,
      <<t_seizure_and_tiredness, AgePatientInfo, TRUE>>,
      <<t_seizure_and_tiredness, AgePatientInfo, FALSE>> }

Reading(p, s, d) == [pulse |-> p, systolicBP |-> s, diastolicBP |-> d]

\* the calls of flag_vitals: (vitals, patient_info)
VitalsCalls ==
    { <<Reading(120, 180, 95), AgePatientInfo>>,
      <<Reading(72, 120, 80), NoPatientInfo>> }

\* VitalsRequest: pulse 30..250, systolicBP 60..300, diastolicBP 30..200,
\* diastolicBP < systolicBP
ValidReading(v) ==
    /\ v.pulse >= 30 /\ v.pulse <= 250
    /\ v.systolicBP >= 60 /\ v.systolicBP <= 300
    /\ v.diastolicBP >= 30 /\ v.diastolicBP <= 200
    /\ v.diastolicBP < v.systolicBP

\* readings the evaluator is checked on: the ends of the valid ranges and
\* the values around each threshold
GridReadings ==
    { v \in { Reading(p, s, d) : p \in {30, 59, 60, 61, 99, 100, 101, 120, 250},
                                 s \in {60, 89, 90, 91, 120, 159, 160, 161, 180, 300},
                                 d \in {30, 59, 60, 61, 80, 95, 99, 100, 101, 200} } :
        ValidReading(v) }

\* ------------------------------------------------------------------------
\* State
\* ------------------------------------------------------------------------
VARIABLES
    calls,          \* the calls of triage_patient / flag_vitals, by slot
    triage_table,   \* rows of the store's 'triage' table, in insert order
    vitals_table,   \* rows of the store's 'vitals' table, in insert order
    clock,          \* logical time: source of ids, created_at and now()
    arg,            \* argument of the function under check (function checks)
    ret,            \* <<>> until that function has returned, then <<value>>
    http            \* the HTTP request the API layer is handling, its response

vars == <<calls, triage_table, vitals_table, clock, arg, ret, http>>

Slots == 1..MaxCalls

NoVitals == Reading(0, 0, 0)

NoFlags ==
    [pulse_flag |-> FALSE, systolic_flag |-> FALSE, diastolic_flag |-> FALSE,
     any_flag |-> FALSE]

\* a call that has not been made yet
IdleCall ==
    [ pc |-> "idle",
      fn |-> "none",
      symptoms_text |-> <<>>,
      patient_info_arg |-> NoPatientInfo,
      patient_info |-> NoPatientInfo,
      use_ai |-> FALSE,
      vitals |-> NoVitals,
      triage_level |-> <<>>,
      flags |-> NoFlags,
      groq |-> "not_called",
      groq_outcome |-> <<>>,
      groq_calls |-> 0,
      rule_calls |-> 0,
      insert_calls |-> 0,
      store |-> "none",
      result |-> <<>>,
      raised |-> FALSE ]

InitStore ==
    /\ triage_table = <<>>
    /\ vitals_table = <<>>
    /\ clock = 1

InitCalls == calls = [s \in Slots |-> IdleCall]

\* the API layer before any request: no request, no response
IdleHttp ==
    [ phase |-> "idle",
      endpoint |-> "none",
      request |-> <<>>,
      response |-> <<>>,
      served |-> 0,
      core |-> <<>>,
      queries |-> <<>> ]

InitHttp == http = IdleHttp

Init ==
    /\ InitCalls
    /\ InitStore
    /\ InitHttp
    /\ arg = <<>>
    /\ ret = <<>>

\* ------------------------------------------------------------------------
\* triage_patient
\* ------------------------------------------------------------------------
\* the call, up to the await of call_groq or, without AI, up to the insert
TriagePatientCall(s, symptoms_text, patient_info, use_ai) ==
    /\ calls[s].pc = "idle"
    /\ \A q \in 1..(s - 1) : calls[q].pc # "idle"
    /\ LET c0 == [calls[s] EXCEPT
                    !.fn = "triage_patient",
                    !.symptoms_text = symptoms_text,
                    !.patient_info_arg = patient_info,
                    !.patient_info = DefaultPatientInfo(patient_info),
                    !.use_ai = use_ai,
                    !.triage_level = <<>>]
       IN  calls' = [calls EXCEPT ![s] =
                IF UsesAi(use_ai)
                THEN [c0 EXCEPT !.pc = "call_groq"]
                ELSE [c0 EXCEPT !.pc = "insert",
                                !.rule_calls = @ + 1,
                                !.triage_level = RulePath(symptoms_text)]]
    /\ UNCHANGED <<triage_table, vitals_table, clock, arg, ret>>

TriagePatient(s) ==
    /\ \E call \in TriageCalls : TriagePatientCall(s, call[1], call[2], call[3])
    /\ UNCHANGED http

AfterAiFallback_retry == "call_groq"

AfterAiFallback_blocked == "blocked"

\* after the except block of the AI path triage_patient goes on to the insert
AfterAiFallback == "insert"

\* await call_groq(symptoms_text) inside try/except: the provider answers or
\* fails, and on failure the rule-based classifier chooses the label
AwaitCallGroq(s) ==
    /\ calls[s].pc = "call_groq"
    /\ \E outcome \in ProviderOutcomes :
        LET attempt == call_groq(outcome)
            chosen == IF attempt.raised THEN AiFallback(calls[s].symptoms_text)
                      ELSE attempt
        IN  calls' = [calls EXCEPT ![s] =
                IF chosen.raised
                THEN [@ EXCEPT !.pc = "done", !.raised = TRUE,
                               !.groq = "raised", !.groq_calls = @ + 1,
                               !.groq_outcome = <<outcome>>]
                ELSE [@ EXCEPT !.pc = IF attempt.raised THEN AfterAiFallback
                                             ELSE "insert",
                               !.groq = IF attempt.raised THEN "raised" ELSE "returned",
                               !.groq_outcome = <<outcome>>,
                               !.groq_calls = @ + 1,
                               !.rule_calls = IF attempt.raised THEN @ + 1 ELSE @,
                               !.triage_level = chosen.value]]
    /\ UNCHANGED <<triage_table, vitals_table, clock, arg, ret, http>>

LocalTriageLevel_shared(s) ==
    LET assigned == {q \in Slots : calls[q].triage_level # <<>>}
    IN  calls[CHOOSE q \in assigned : \A r \in assigned : r <= q].triage_level

\* triage_level is a local variable of triage_patient: every call reads the
\* value it assigned itself
LocalTriageLevel(s) == calls[s].triage_level

\* supabase.table('triage').insert({...}).execute() inside try/except, and
\* the return of triage_patient
InsertTriage(s) ==
    /\ calls[s].pc = "insert"
    /\ calls[s].fn = "triage_patient"
    /\ \E outcome \in StoreOutcomes :
        LET c == calls[s]
            record == TriageRecord(c.symptoms_text, LocalTriageLevel(s),
                                   c.patient_info, c.use_ai)
            attempt == InsertAttempt(record, outcome, clock)
            stored == TriageStored(LocalTriageLevel(s), attempt)
            answer == IF stored.raised
                      THEN OnTriageStoreError(LocalTriageLevel(s), clock)
                      ELSE stored
        IN  /\ triage_table' = IF outcome = "ok"
                               THEN Append(triage_table, attempt.data[1])
                               ELSE triage_table
            /\ calls' = [calls EXCEPT ![s] =
                    [@ EXCEPT !.pc = "done",
                              !.insert_calls = @ + 1,
                              !.store = outcome,
                              !.raised = answer.raised,
                              !.result = IF answer.raised THEN <<>>
                                         ELSE <<answer.value>>]]
    /\ clock' = clock + 1
    /\ UNCHANGED <<vitals_table, arg, ret, http>>

\* ------------------------------------------------------------------------
\* flag_vitals
\* ------------------------------------------------------------------------
\* the call, up to the insert
FlagVitalsCall(s, vitals, patient_info) ==
    /\ calls[s].pc = "idle"
    /\ \A q \in 1..(s - 1) : calls[q].pc # "idle"
    /\ calls' = [calls EXCEPT ![s] =
            [@ EXCEPT !.pc = "insert",
                      !.fn = "flag_vitals",
                      !.vitals = vitals,
                      !.patient_info_arg = patient_info,
                      !.patient_info = DefaultPatientInfo(patient_info),
                      !.flags = ComputeFlags(vitals)]]
    /\ UNCHANGED <<triage_table, vitals_table, clock, arg, ret>>

FlagVitals(s) ==
    /\ \E call \in VitalsCalls : FlagVitalsCall(s, call[1], call[2])
    /\ UNCHANGED http

\* the result of flag_vitals once the insert has had the given outcome
FlagVitalsAnswer(f, attempt, t) ==
    LET stored == VitalsStored(f, attempt)
    IN  IF stored.raised THEN OnVitalsStoreError(f, t) ELSE stored

\* supabase.table('vitals').insert({...}).execute() inside try/except, and
\* the return of flag_vitals
InsertVitals(s) ==
    /\ calls[s].pc = "insert"
    /\ calls[s].fn = "flag_vitals"
    /\ \E outcome \in StoreOutcomes :
        LET c == calls[s]
            record == VitalsRecord(c.vitals, c.flags, c.patient_info)
            attempt == InsertAttempt(record, outcome, clock)
            answer == FlagVitalsAnswer(c.flags, attempt, clock)
        IN  /\ vitals_table' = IF outcome = "ok"
                               THEN Append(vitals_table, attempt.data[1])
                               ELSE vitals_table
            /\ calls' = [calls EXCEPT ![s] =
                    [@ EXCEPT !.pc = "done",
                              !.insert_calls = @ + 1,
                              !.store = outcome,
                              !.raised = answer.raised,
                              !.result = IF answer.raised THEN <<>>
                                         ELSE <<answer.value>>]]
    /\ clock' = clock + 1
    /\ UNCHANGED <<triage_table, arg, ret, http>>

Next ==
    \E s \in Slots :
        \/ TriagePatient(s)
        \/ AwaitCallGroq(s)
        \/ InsertTriage(s)
        \/ FlagVitals(s)
        \/ InsertVitals(s)

Spec == Init /\ [][Next]_vars

\* ------------------------------------------------------------------------
\* Function checks: one function applied to each input of a bounded set
\* ------------------------------------------------------------------------
InitRule ==
    /\ InitCalls
    /\ InitStore
    /\ InitHttp
    /\ arg \in RuleTexts
    /\ ret = <<>>

ApplyRuleBasedTriage ==
    /\ ret = <<>>
    /\ ret' = <<rule_based_triage(arg)>>
    /\ UNCHANGED <<calls, triage_table, vitals_table, clock, arg, http>>

NextRule == ApplyRuleBasedTriage

SpecRule == InitRule /\ [][NextRule]_vars

InitGroq ==
    /\ InitCalls
    /\ InitStore
    /\ InitHttp
    /\ arg \in ParserOutcomes
    /\ ret = <<>>

ApplyCallGroq ==
    /\ ret = <<>>
    /\ ret' = <<call_groq(arg)>>
    /\ UNCHANGED <<calls, triage_table, vitals_table, clock, arg, http>>

NextGroq == ApplyCallGroq

SpecGroq == InitGroq /\ [][NextGroq]_vars

InitVitals ==
    /\ InitCalls
    /\ InitStore
    /\ InitHttp
    /\ arg \in GridReadings
    /\ ret = <<>>

\* flag_vitals from call to return, for each outcome of the insert
ApplyFlagVitals ==
    /\ ret = <<>>
    /\ \E outcome \in StoreOutcomes, patient_info \in PatientInfos :
        LET f == ComputeFlags(arg)
            record == VitalsRecord(arg, f, DefaultPatientInfo(patient_info))
            attempt == InsertAttempt(record, outcome, clock)
        IN  /\ ret' = <<[store |-> outcome] @@ FlagVitalsAnswer(f, attempt, clock)>>
            /\ vitals_table' = IF outcome = "ok"
                               THEN Append(vitals_table, attempt.data[1])
                               ELSE vitals_table
    /\ clock' = clock + 1
    /\ UNCHANGED <<calls, triage_table, arg, http>>

NextVitals == ApplyFlagVitals

SpecVitals == InitVitals /\ [][NextVitals]_vars

\* ------------------------------------------------------------------------
\* API layer (backend/main.py): request models
\* ------------------------------------------------------------------------
pii_ssn ==
    <<"s", "s", "n">>

pii_social_security ==
    <<"s", "o", "c", "i", "a", "l", " ", "s", "e", "c", "u", "r", "i", "t",
      "y">>

pii_credit_card ==
    <<"c", "r", "e", "d", "i", "t", " ", "c", "a", "r", "d">>

pii_phone_number ==
    <<"p", "h", "o", "n", "e", " ", "n", "u", "m", "b", "e", "r">>

pii_indicators == <<pii_ssn, pii_social_security, pii_credit_card, pii_phone_number>>

Rejected == [ok |-> FALSE, value |-> <<>>]

Accepted(v) == [ok |-> TRUE, value |-> v]

\* symptoms: str = Field(..., min_length=5, max_length=2000): the constraint
\* is on the string as received
LengthInBounds(v) == Len(v) >= 5 /\ Len(v) <= 2000

HasPii_case_sensitive(v) ==
    \E k \in 1..Len(pii_indicators) : Contains(v, pii_indicators[k])

\* any(indicator in v.lower() for indicator in pii_indicators)
HasPii(v) ==
    \E k \in 1..Len(pii_indicators) : Contains(Lower(v), pii_indicators[k])

\* @validator('symptoms') validate_symptoms, run once the Field constraint
\* has passed
validate_symptoms(v) ==
    IF Strip(v) = <<>> THEN Rejected
    ELSE IF HasPii(v) THEN Rejected
    ELSE Accepted(Strip(v))

\* TriageRequest(**body): the symptoms the handler receives, or a rejection
TriageRequest(body) ==
    IF ~LengthInBounds(body.symptoms) THEN Rejected
    ELSE validate_symptoms(body.symptoms)

PulseInRange(v) == v >= 30 /\ v <= 250

SystolicInRange(v) == v >= 60 /\ v <= 300

DiastolicInRange(v) == v >= 30 /\ v <= 200

validate_blood_pressure_inclusive(v, values) ==
    ~("systolicBP" \in DOMAIN values /\ v > values["systolicBP"])

\* @validator('diastolicBP') validate_blood_pressure: values holds the
\* fields declared before diastolicBP that passed their own validation
validate_blood_pressure(v, values) ==
    ~("systolicBP" \in DOMAIN values /\ v >= values["systolicBP"])

\* VitalsRequest(**body): fields are validated in declaration order
VitalsRequest(body) ==
    LET pulse_ok == PulseInRange(body.pulse)
        systolic_ok == SystolicInRange(body.systolicBP)
        values == IF systolic_ok THEN [k \in {"systolicBP"} |-> body.systolicBP]
                  ELSE [k \in {} |-> 0]
        diastolic_ok == /\ DiastolicInRange(body.diastolicBP)
                        /\ validate_blood_pressure(body.diastolicBP, values)
    IN  IF pulse_ok /\ systolic_ok /\ diastolic_ok
        THEN Accepted(Reading(body.pulse, body.systolicBP, body.diastolicBP))
        ELSE Rejected

\* ------------------------------------------------------------------------
\* API layer: responses
\* ------------------------------------------------------------------------
\* JSON null in a response body
JsonNull == "null"

\* result.get('error'), result.get('record_id')
DictGet(v) == IF v = Absent THEN JsonNull ELSE v

\* 422: the request model rejected the body, the handler did not run
ValidationErrorResponse == [status |-> 422, body |-> [detail |-> "validation error"]]

\* raise HTTPException(status_code=..., detail=...)
HTTPException(status_code, prefix, e) ==
    [status |-> status_code, body |-> [detail |-> prefix, error |-> e]]

\* except Exception as e: raise HTTPException(status_code=500,
\* detail=f"<prefix>{str(e)}") at the end of every endpoint
EndpointExcept(prefix, e) == HTTPException(500, prefix, e)

\* @app.exception_handler(Exception): what an exception that leaves an
\* endpoint is answered with
general_exception_handler(e) ==
    [status |-> 500, body |-> [detail |-> "Internal server error occurred", error |-> ""]]

\* TriageResponse(triage_level=..., record_id=..., timestamp=..., error=...)
TriageResponse(result) ==
    [ status |-> 200,
      body |-> [ triage_level |-> result.triage_level,
                 record_id |-> result.record_id,
                 timestamp |-> result.timestamp,
                 confidence |-> JsonNull,
                 error |-> DictGet(result.error) ] ]

\* VitalsResponse(flags=..., record_id=..., timestamp=..., error=...)
VitalsResponse(result) ==
    [ status |-> 200,
      body |-> [ flags |-> result.flags,
                 record_id |-> result.record_id,
                 timestamp |-> result.timestamp,
                 error |-> DictGet(result.error) ] ]

\* the state of the API layer once a request has been answered; core is
\* <<the call of the core function the handler made>>, or <<>>
Answered(endpoint, request, response, c) ==
    [ http EXCEPT !.phase = "done",
                  !.endpoint = endpoint,
                  !.request = request,
                  !.response = <<response>>,
                  !.core = c,
                  !.queries = <<>> ]

\* the state of the API layer while the core function runs
InCore(endpoint, request) ==
    [ http EXCEPT !.phase = "core",
                  !.endpoint = endpoint,
                  !.request = request,
                  !.response = <<>>,
                  !.served = @ + 1,
                  !.core = <<>>,
                  !.queries = <<>> ]

\* the API layer takes a request when it is not inside the core
\* the application is up and not inside a core function
Serving == http.phase \in {"idle", "done"}

CanAccept == Serving /\ http.served < MaxCalls

\* ------------------------------------------------------------------------
\* API layer: POST /api/triage and POST /api/vitals
\* ------------------------------------------------------------------------
\* create_triage up to the await of triage_patient; a body the request model
\* rejects is answered 422 before the handler runs
PostTriage(body) ==
    /\ CanAccept
    /\ LET request == TriageRequest(body)
       IN  IF request.ok
           THEN /\ TriagePatientCall(1, request.value, body.patient_info, body.use_ai)
                /\ http' = InCore("POST /api/triage", body)
           ELSE /\ http' = Answered("POST /api/triage", body,
                                    ValidationErrorResponse, <<>>)
                /\ UNCHANGED <<calls, triage_table, vitals_table, clock, arg, ret>>

\* create_triage once triage_patient is over: the response, or the except
\* block when it raised
CreateTriageReturn ==
    /\ http.phase = "core"
    /\ http.endpoint = "POST /api/triage"
    /\ calls[1].pc = "done"
    /\ http' = Answered("POST /api/triage", http.request,
                        IF calls[1].raised
                        THEN EndpointExcept("Triage analysis failed: ", "str(e)")
                        ELSE TriageResponse(calls[1].result[1]),
                        <<calls[1]>>)
    /\ calls' = [calls EXCEPT ![1] = IdleCall]
    /\ UNCHANGED <<triage_table, vitals_table, clock, arg, ret>>

\* check_vitals up to the insert of flag_vitals
PostVitals(body) ==
    /\ CanAccept
    /\ LET request == VitalsRequest(body)
       IN  IF request.ok
           THEN /\ FlagVitalsCall(1, request.value, body.patient_info)
                /\ http' = InCore("POST /api/vitals", body)
           ELSE /\ http' = Answered("POST /api/vitals", body,
                                    ValidationErrorResponse, <<>>)
                /\ UNCHANGED <<calls, triage_table, vitals_table, clock, arg, ret>>

\* check_vitals once flag_vitals is over
CheckVitalsReturn ==
    /\ http.phase = "core"
    /\ http.endpoint = "POST /api/vitals"
    /\ calls[1].pc = "done"
    /\ http' = Answered("POST /api/vitals", http.request,
                        IF calls[1].raised
                        THEN EndpointExcept("Vitals analysis failed: ", "str(e)")
                        ELSE VitalsResponse(calls[1].result[1]),
                        <<calls[1]>>)
    /\ calls' = [calls EXCEPT ![1] = IdleCall]
    /\ UNCHANGED <<triage_table, vitals_table, clock, arg, ret>>

\* ------------------------------------------------------------------------
\* Recent records: get_recent_*_records and the GET .../recent endpoints
\* ------------------------------------------------------------------------
\* outcomes of supabase.table(t).select('*')...execute()
SelectOutcomes == {"ok", "raise"}

RecentQuery_ascending(table, limit_count) ==
    [table |-> table, order |-> "created_at", desc |-> FALSE, limit |-> limit_count]

\* supabase.table(t).select('*').order('created_at', desc=True).limit(n)
RecentQuery(table, limit_count) ==
    [table |-> table, order |-> "created_at", desc |-> TRUE, limit |-> limit_count]

\* the rows of a set ordered by created_at (the store gives every row its
\* own created_at): the k-th row has k - 1 rows before it
OrderByCreatedAt(rows, desc) ==
    [ k \in 1..Cardinality(rows) |->
        CHOOSE r \in rows :
            Cardinality({ q \in rows :
                            IF desc THEN q.created_at.at > r.created_at.at
                            ELSE q.created_at.at < r.created_at.at }) = k - 1 ]

\* the store executing a select query on its tables
StoreSelect(query) ==
    LET table == IF query.table = "triage" THEN triage_table ELSE vitals_table
        ordered == OrderByCreatedAt({table[i] : i \in 1..Len(table)}, query.desc)
    IN  SubSeq(ordered, 1, IF query.limit < Len(ordered) THEN query.limit
                           ELSE Len(ordered))

OnSelectError_reraise(outcome) == Raised

\* except Exception as error: return []
OnSelectError(outcome) == Returned(<<>>)

\* get_recent_triage_records / get_recent_vitals_records
get_recent_records(table, limit_count, outcome) ==
    IF outcome = "raise" THEN OnSelectError(outcome)
    ELSE Returned(StoreSelect(RecentQuery(table, limit_count)))

get_recent_triage_records(limit_count, outcome) ==
    get_recent_records("triage", limit_count, outcome)

get_recent_vitals_records(limit_count, outcome) ==
    get_recent_records("vitals", limit_count, outcome)

\* if limit < 1 or limit > 100
LimitOutOfRange(limit) == limit < 1 \/ limit > 100

ReraiseHTTPException_convert(exc, prefix) == HTTPException(500, prefix, "str(e)")

\* except HTTPException: raise
ReraiseHTTPException(exc, prefix) == exc

\* the body of get_recent_triage / get_recent_vitals
RecentResponse(table, prefix, limit, outcome) ==
    IF LimitOutOfRange(limit)
    THEN ReraiseHTTPException(
            HTTPException(400, "Limit must be between 1 and 100", ""), prefix)
    ELSE LET records == get_recent_records(table, limit, outcome)
         IN  IF records.raised THEN EndpointExcept(prefix, "str(e)")
             ELSE [ status |-> 200,
                    body |-> [records |-> records.value,
                              count |-> Len(records.value)] ]

GetRecent(endpoint, table, prefix, limit) ==
    /\ Serving
    /\ \E outcome \in SelectOutcomes :
        http' = [ Answered(endpoint, [limit |-> limit],
                           RecentResponse(table, prefix, limit, outcome), <<>>)
                  EXCEPT !.queries =
                    IF LimitOutOfRange(limit) THEN <<>>
                    ELSE << [query |-> RecentQuery(table, limit),
                             outcome |-> outcome] >> ]
    /\ UNCHANGED <<calls, triage_table, vitals_table, clock, arg, ret>>

\* GET /api/triage/recent?limit=N
GetRecentTriage(limit) ==
    GetRecent("GET /api/triage/recent", "triage",
              "Failed to retrieve triage records: ", limit)

\* GET /api/vitals/recent?limit=N
GetRecentVitals(limit) ==
    GetRecent("GET /api/vitals/recent", "vitals",
              "Failed to retrieve vitals records: ", limit)

\* ------------------------------------------------------------------------
\* API inputs and specifications
\* ------------------------------------------------------------------------
in_empty ==
    <<>>

in_Hi ==
    <<"H", "i">>

in_ab_padded ==
    <<"a", "b", " ", " ", " ">>

in_five_spaces ==
    <<" ", " ", " ", " ", " ">>

in_my_SSN ==
    <<"m", "y", " ", "S", "S", "N", " ", "i", "s", " ", "1", "2", "3">>

in_Credit_Card ==
    <<"l", "o", "s", "t", " ", "m", "y", " ", "C", "r", "e", "d", "i", "t",
      " ", "C", "a", "r", "d">>

in_ssn ==
    <<"s", "s", "n">>

in_headache_padded ==
    <<" ", " ", "m", "i", "l", "d", " ", "h", "e", "a", "d", "a", "c", "h",
      "e", " ", "\n">>

in_restlessness ==
    <<"d", "i", "z", "z", "i", "n", "e", "s", "s", " ", "a", "n", "d", " ",
      "r", "e", "s", "t", "l", "e", "s", "s", "n", "e", "s", "s">>

Repeat(c, n) == [i \in 1..n |-> c]

TriageBody(symptoms, patient_info, use_ai) ==
    [symptoms |-> symptoms, patient_info |-> patient_info, use_ai |-> use_ai]

VitalsBody(p, s, d, patient_info) ==
    [pulse |-> p, systolicBP |-> s, diastolicBP |-> d, patient_info |-> patient_info]

\* request bodies of the request sequences
ApiTriageBodies ==
    { TriageBody(t_mild_headache, EmptyPatientInfo, TRUE),
      TriageBody(t_seizure_and_tiredness, AgePatientInfo, FALSE),
      TriageBody(in_Hi, EmptyPatientInfo, TRUE) }

ApiVitalsBodies ==
    { VitalsBody(120, 180, 95, AgePatientInfo),
      VitalsBody(80, 80, 90, EmptyPatientInfo) }

ApiLimits == {0, 1, 2, 101}

\* request bodies of the single requests: lengths around 5 and 2000 before
\* and after trimming, PII markers in several cases and inside a word
SymptomInputs ==
    { in_empty, in_Hi, in_ab_padded, in_five_spaces, in_my_SSN, in_Credit_Card,
      in_ssn, in_headache_padded, in_restlessness, t_mild_headache,
      pii_social_security, pii_phone_number,
      Repeat("a", 4), Repeat("a", 5), Repeat("a", 2000), Repeat("a", 2001),
      Repeat("a", 1998) \o <<" ", " ", " ">> }

OneTriageBodies ==
    {TriageBody(symptoms, EmptyPatientInfo, use_ai) :
        symptoms \in SymptomInputs, use_ai \in BOOLEAN}

OneVitalsBodies ==
    {VitalsBody(p, s, d, NoPatientInfo) :
        p \in {29, 30, 85, 250, 251, 300},
        s \in {59, 60, 80, 120, 300, 301},
        d \in {29, 30, 79, 80, 81, 90, 200, 201}}

OneLimits == {-1, 0, 1, 5, 10, 100, 101, 500}

\* sequences of requests, one at a time
NextApi ==
    \/ \E body \in ApiTriageBodies : PostTriage(body)
    \/ AwaitCallGroq(1)
    \/ InsertTriage(1)
    \/ CreateTriageReturn
    \/ \E body \in ApiVitalsBodies : PostVitals(body)
    \/ InsertVitals(1)
    \/ CheckVitalsReturn
    \/ \E limit \in ApiLimits : GetRecentTriage(limit)
    \/ \E limit \in ApiLimits : GetRecentVitals(limit)

SpecApi == Init /\ [][NextApi]_vars

\* the same request sequences when every outbound call eventually returns or
\* fails and every handler that can go on is eventually run
OutboundCallsEnd ==
    /\ WF_vars(AwaitCallGroq(1))
    /\ WF_vars(InsertTriage(1))
    /\ WF_vars(InsertVitals(1))

HandlersResume ==
    /\ WF_vars(CreateTriageReturn)
    /\ WF_vars(CheckVitalsReturn)

SpecApiLive == Init /\ [][NextApi]_vars /\ OutboundCallsEnd /\ HandlersResume

\* a single request, from the wider input sets
NextOne ==
    \/ http.phase = "idle" /\ \E body \in OneTriageBodies : PostTriage(body)
    \/ AwaitCallGroq(1)
    \/ InsertTriage(1)
    \/ CreateTriageReturn
    \/ http.phase = "idle" /\ \E body \in OneVitalsBodies : PostVitals(body)
    \/ InsertVitals(1)
    \/ CheckVitalsReturn
    \/ http.phase = "idle" /\ \E limit \in OneLimits : GetRecentTriage(limit)
    \/ http.phase = "idle" /\ \E limit \in OneLimits : GetRecentVitals(limit)

SpecOne == Init /\ [][NextOne]_vars

\* ------------------------------------------------------------------------
\* Unexpected errors inside the endpoints
\* ------------------------------------------------------------------------
\* str(e) of the exceptions raised inside the try block of an endpoint by
\* something other than the provider and the store calls the core guards:
\* the response model refusing a value, a failing print, MemoryError
UnexpectedErrors ==
    {"1 validation error for TriageResponse", "[Errno 32] Broken pipe"}

\* create_triage: the try block raises once triage_patient has returned
CreateTriageFault(e) ==
    /\ http.phase = "core"
    /\ http.endpoint = "POST /api/triage"
    /\ calls[1].pc = "done"
    /\ http' = Answered("POST /api/triage", http.request,
                        EndpointExcept("Triage analysis failed: ", e),
                        <<calls[1]>>)
    /\ calls' = [calls EXCEPT ![1] = IdleCall]
    /\ UNCHANGED <<triage_table, vitals_table, clock, arg, ret>>

\* check_vitals: the try block raises once flag_vitals has returned
CheckVitalsFault(e) ==
    /\ http.phase = "core"
    /\ http.endpoint = "POST /api/vitals"
    /\ calls[1].pc = "done"
    /\ http' = Answered("POST /api/vitals", http.request,
                        EndpointExcept("Vitals analysis failed: ", e),
                        <<calls[1]>>)
    /\ calls' = [calls EXCEPT ![1] = IdleCall]
    /\ UNCHANGED <<triage_table, vitals_table, clock, arg, ret>>

\* get_recent_triage: the try block raises after the limit check
GetRecentTriageFault(limit, e) ==
    /\ Serving
    /\ ~LimitOutOfRange(limit)
    /\ http' = Answered("GET /api/triage/recent", [limit |-> limit],
                        EndpointExcept("Failed to retrieve triage records: ", e),
                        <<>>)
    /\ UNCHANGED <<calls, triage_table, vitals_table, clock, arg, ret>>

\* sequences of requests in which the try block of an endpoint may raise
NextFault ==
    \/ \E body \in ApiTriageBodies : PostTriage(body)
    \/ AwaitCallGroq(1)
    \/ InsertTriage(1)
    \/ CreateTriageReturn
    \/ \E e \in UnexpectedErrors : CreateTriageFault(e)
    \/ \E body \in ApiVitalsBodies : PostVitals(body)
    \/ InsertVitals(1)
    \/ CheckVitalsReturn
    \/ \E e \in UnexpectedErrors : CheckVitalsFault(e)
    \/ \E limit \in ApiLimits : GetRecentTriage(limit)
    \/ \E limit \in ApiLimits, e \in UnexpectedErrors : GetRecentTriageFault(limit, e)

SpecFault == Init /\ [][NextFault]_vars

\* ------------------------------------------------------------------------
\* One call of a core function at a time
\* ------------------------------------------------------------------------
SoloSymptoms == {t_mild_headache, t_seizure_and_tiredness, t_generally_unwell}

\* one call of triage_patient: (symptoms_text, patient_info, use_ai)
SoloTriageCalls == SoloSymptoms \X PatientInfos \X BOOLEAN

\* one call of flag_vitals: (vitals, patient_info)
SoloVitalsCalls ==
    {Reading(120, 180, 95), Reading(72, 120, 80), Reading(59, 90, 60)}
        \X PatientInfos

NextSolo ==
    \/ /\ \E call \in SoloTriageCalls :
            TriagePatientCall(1, call[1], call[2], call[3])
       /\ UNCHANGED http
    \/ AwaitCallGroq(1)
    \/ InsertTriage(1)
    \/ /\ \E call \in SoloVitalsCalls : FlagVitalsCall(1, call[1], call[2])
       /\ UNCHANGED http
    \/ InsertVitals(1)

SpecSolo == Init /\ [][NextSolo]_vars

\* ------------------------------------------------------------------------
\* Start-up: the module initialisation of triage_core
\* ------------------------------------------------------------------------
SUPABASE_URL == "SUPABASE_URL"

SUPABASE_ANON_KEY == "SUPABASE_ANON_KEY"

GROQ_API_KEY == "GROQ_API_KEY"

\* what os.getenv returns for a variable that is not set
Unset == "<None>"

\* the environments the process is started in: every setting unset, empty
\* or set
SettingNames == {SUPABASE_URL, SUPABASE_ANON_KEY, GROQ_API_KEY}

Environments == [SettingNames -> {Unset, "", "value"}]

\* if not supabase_url / if not supabase_key / if not groq_api_key
IsMissing(value) == value = Unset \/ value = ""

RequiredSettings_store_only == <<SUPABASE_URL, SUPABASE_ANON_KEY>>

\* the settings the module initialisation checks, in the order of the checks
RequiredSettings == <<SUPABASE_URL, SUPABASE_ANON_KEY, GROQ_API_KEY>>

\* the first check that raises ValueError, 0 when none does
FirstMissing(env) ==
    LET missing == {i \in 1..Len(RequiredSettings) : IsMissing(env[RequiredSettings[i]])}
    IN  IF missing = {} THEN 0
        ELSE CHOOSE i \in missing : \A j \in missing : i <= j

\* the application before triage_core is imported
ImportingHttp == [IdleHttp EXCEPT !.phase = "importing"]

InitStartup ==
    /\ InitCalls
    /\ InitStore
    /\ http = ImportingHttp
    /\ arg \in Environments
    /\ ret = <<>>

\* import triage_core: a missing setting raises ValueError at module level
\* and the process does not come up; otherwise the clients are created and
\* the application serves
ImportTriageCore ==
    /\ http.phase = "importing"
    /\ LET i == FirstMissing(arg)
       IN  IF i = 0
           THEN /\ http' = [http EXCEPT !.phase = "idle"]
                /\ ret' = ret
           ELSE /\ http' = [http EXCEPT !.phase = "fatal"]
                /\ ret' = <<[raised |-> "ValueError", setting |-> RequiredSettings[i]]>>
    /\ UNCHANGED <<calls, triage_table, vitals_table, clock, arg>>

NextStartup ==
    \/ ImportTriageCore
    \/ NextApi

SpecStartup == InitStartup /\ [][NextStartup]_vars

\* ------------------------------------------------------------------------
\* API layer: GET /api/stats
\* ------------------------------------------------------------------------
MaxRows == 3

\* get_recent_triage_records(100), get_recent_vitals_records(100)
StatsLimit == 100

\* triage_levels[level] = triage_levels.get(level, 0) + 1 over the records
LevelsBreakdown(records) ==
    [ level \in {records[i].triage_level : i \in 1..Len(records)} |->
        Cardinality({i \in 1..Len(records) : records[i].triage_level = level}) ]

\* sum(1 for record in vitals_records if record.get('any_flag', False))
FlaggedVitals(records) ==
    Cardinality({i \in 1..Len(records) : records[i].any_flag})

\* round(x, 2) of the quotient num / den, in hundredths: the nearest
\* hundredth, the even one of two equally near
RoundHundredths(num, den) ==
    LET scaled == 100 * num
        q == scaled \div den
        r == scaled % den
    IN  IF 2 * r < den THEN q
        ELSE IF 2 * r > den THEN q + 1
        ELSE IF q % 2 = 0 THEN q ELSE q + 1

FlagPercentage_truncated(flagged, total) ==
    IF total = 0 THEN 0 ELSE (10000 * flagged) \div total

\* round((flagged_vitals / len(vitals_records) * 100) if vitals_records
\* else 0, 2), in hundredths of a percent
FlagPercentage(flagged, total) ==
    IF total = 0 THEN 0 ELSE RoundHundredths(100 * flagged, total)

\* the body of get_triage_stats
StatsResponse(triage_outcome, vitals_outcome) ==
    LET triage_records == get_recent_triage_records(StatsLimit, triage_outcome)
        vitals_records == get_recent_vitals_records(StatsLimit, vitals_outcome)
    IN  IF triage_records.raised \/ vitals_records.raised
        THEN EndpointExcept("Failed to generate statistics: ", "str(e)")
        ELSE [ status |-> 200,
               body |->
                 [ triage_stats |->
                     [ total_assessments |-> Len(triage_records.value),
                       levels_breakdown |-> LevelsBreakdown(triage_records.value) ],
                   vitals_stats |->
                     [ total_checks |-> Len(vitals_records.value),
                       flagged_cases |-> FlaggedVitals(vitals_records.value),
                       flag_percentage |->
                         FlagPercentage(FlaggedVitals(vitals_records.value),
                                        Len(vitals_records.value)) ] ] ]

\* GET /api/stats
GetStats ==
    /\ Serving
    /\ \E triage_outcome \in SelectOutcomes, vitals_outcome \in SelectOutcomes :
        http' = [ Answered("GET /api/stats", <<>>,
                           StatsResponse(triage_outcome, vitals_outcome), <<>>)
                  EXCEPT !.queries =
                    << [query |-> RecentQuery("triage", StatsLimit),
                        outcome |-> triage_outcome],
                       [query |-> RecentQuery("vitals", StatsLimit),
                        outcome |-> vitals_outcome] >> ]
    /\ UNCHANGED <<calls, triage_table, vitals_table, clock, arg, ret>>

\* the contents of the store the statistics are computed on: the rows of a
\* table in the order of their insertion
TriageRowWith(level, t) ==
    StoredRow(TriageRecord(t_mild_headache, level, EmptyPatientInfo, FALSE), t)

VitalsRowWith(flagged, t) ==
    StoredRow(VitalsRecord(IF flagged THEN Reading(120, 120, 80)
                           ELSE Reading(72, 120, 80),
                           ComputeFlags(IF flagged THEN Reading(120, 120, 80)
                                        ELSE Reading(72, 120, 80)),
                           EmptyPatientInfo), t)

SmallTriageTables ==
    UNION { { [i \in 1..n |-> TriageRowWith(ls[i], i)] :
                ls \in [1..n -> {Critical, Moderate, ln_High}] } : n \in 0..MaxRows }

SmallVitalsTables ==
    UNION { { [i \in 1..n |-> VitalsRowWith(fs[i], i)] :
                fs \in [1..n -> BOOLEAN] } : n \in 0..MaxRows }

\* tables longer than the limit, the oldest row differing from the others
LongTriageTable ==
    [i \in 1..(StatsLimit + 1) |-> TriageRowWith(IF i = 1 THEN Critical ELSE Moderate, i)]

LongVitalsTable ==
    [i \in 1..(StatsLimit + 1) |-> VitalsRowWith(i = 1, i)]

InitStats ==
    /\ InitCalls
    /\ InitHttp
    /\ \/ triage_table \in SmallTriageTables /\ vitals_table \in SmallVitalsTables
       \/ triage_table = LongTriageTable /\ vitals_table = LongVitalsTable
    /\ clock = 1 + Len(triage_table) + Len(vitals_table)
    /\ arg = <<>>
    /\ ret = <<>>

NextStats == GetStats

SpecStats == InitStats /\ [][NextStats]_vars

\* ------------------------------------------------------------------------
\* Properties
\* ------------------------------------------------------------------------
TriageCall(s) == calls[s].fn = "triage_patient"

Returned_(s) == calls[s].pc = "done" /\ ~calls[s].raised /\ calls[s].result # <<>>

StoreFailed(s) == calls[s].store \in {"raise", "no_row"}

\* C1: when use_ai is true and call_groq fails, triage_patient does not raise
\* and the label it goes on with, and returns, is the one rule_based_triage
\* gives for the same symptom text ('mild headache': Moderate).
C1_FallbackOnAiFailure ==
    \A s \in Slots :
        (TriageCall(s) /\ calls[s].use_ai /\ calls[s].groq = "raised") =>
            /\ ~calls[s].raised
            /\ calls[s].pc \in {"insert", "done"}
            /\ calls[s].triage_level = rule_based_triage(calls[s].symptoms_text)
            /\ calls[s].pc = "done" =>
                /\ calls[s].result # <<>>
                /\ calls[s].result[1].triage_level =
                        rule_based_triage(calls[s].symptoms_text)
                /\ calls[s].symptoms_text = t_mild_headache =>
                        calls[s].result[1].triage_level = Moderate
                /\ calls[s].symptoms_text = t_seizure_and_tiredness =>
                        calls[s].result[1].triage_level = Critical

C1_Witness ==
    \E s \in Slots :
        /\ TriageCall(s) /\ calls[s].use_ai /\ calls[s].groq = "raised"
        /\ Returned_(s)
        /\ calls[s].symptoms_text = t_mild_headache
        /\ calls[s].result[1].triage_level = Moderate

\* C2: if the store insert fails, triage_patient raises nothing and returns
\* the label it had computed before the insert, with record_id None and a
\* non-null error marker.
C2_StoreFailureKeepsLabel ==
    \A s \in Slots :
        (TriageCall(s) /\ calls[s].pc = "done" /\ StoreFailed(s)) =>
            /\ ~calls[s].raised
            /\ calls[s].result # <<>>
            /\ calls[s].result[1].triage_level = calls[s].triage_level
            /\ calls[s].result[1].record_id = None
            /\ calls[s].result[1].error # Absent
            /\ calls[s].result[1].data = <<>>
            /\ ~calls[s].use_ai =>
                calls[s].result[1].triage_level =
                    (IF calls[s].symptoms_text = t_mild_headache
                     THEN Moderate ELSE Critical)

C2_Witness ==
    \E s \in Slots :
        /\ TriageCall(s) /\ Returned_(s) /\ calls[s].store = "raise"
        /\ calls[s].result[1].triage_level = Critical
        /\ calls[s].result[1].record_id = None
        /\ calls[s].result[1].error = StoreErrorMarker

\* C3: every answered triage request carries a triage_level that is one of
\* Critical, Urgent, Moderate, Low, whatever text the provider returned.
C3_LabelAlwaysValid ==
    \A s \in Slots :
        (TriageCall(s) /\ Returned_(s)) => calls[s].result[1].triage_level \in Labels

\* a provider failure: the client raised, there is no text, or the text is
\* empty or all whitespace
ProviderFailed(outcome) ==
    \/ outcome.kind \in ProviderFailureKinds
    \/ /\ outcome.kind = "content"
       /\ \A i \in 1..Len(outcome.content) : outcome.content[i] \in Whitespace

\* C4: any provider failure in call_groq (network error, timeout, empty or
\* whitespace-only response) ends call_groq with an error, never with a value.
C4_ProviderFailureSignalled ==
    (ret # <<>> /\ ProviderFailed(arg)) =>
        /\ ret[1].raised
        /\ ret[1].value \notin Labels

C4_Witness ==
    /\ ret # <<>>
    /\ arg.kind = "content"
    /\ arg.content # <<>>
    /\ ProviderFailed(arg)
    /\ ret[1].raised

LevelSet == {lv_critical, lv_urgent, lv_moderate, lv_low}

CanonicalLabel(lv) ==
    CASE lv = lv_critical -> Critical
      [] lv = lv_urgent -> Urgent
      [] lv = lv_moderate -> Moderate
      [] lv = lv_low -> Low

MaxOf(S) == CHOOSE i \in S : \A j \in S : j <= i

\* the lines of the response that are a label, and those that are not blank
LevelLines(content) ==
    LET lines == SplitLines(content)
    IN  {i \in 1..Len(lines) : Lower(Strip(lines[i])) \in LevelSet}

NonBlankLines(content) ==
    LET lines == SplitLines(content)
    IN  {i \in 1..Len(lines) : Strip(lines[i]) # <<>>}

\* C5 (as stated): for a non-empty response call_groq returns the last line
\* that is one of the four labels (trimmed, case-insensitive) in canonical
\* capitalisation, and when no line matches it returns the last non-empty line.
C5_ReturnsLastLineAsIs ==
    (ret # <<>> /\ ~ProviderFailed(arg)) =>
        LET lines == SplitLines(arg.content)
            M == LevelLines(arg.content)
            N == NonBlankLines(arg.content)
        IN  /\ ~ret[1].raised
            /\ ret[1].value =
                IF M # {} THEN CanonicalLabel(Lower(Strip(lines[MaxOf(M)])))
                ELSE Strip(lines[MaxOf(N)])

\* C5 (amended): for a non-empty response call_groq returns the last line
\* that is one of the four labels (trimmed, case-insensitive) in canonical
\* capitalisation, and when no line matches it returns the last non-empty
\* line trimmed, lower-cased and with its first character upper-cased.
C5_ReturnsLastLevelLine ==
    (ret # <<>> /\ ~ProviderFailed(arg)) =>
        LET lines == SplitLines(arg.content)
            M == LevelLines(arg.content)
            N == NonBlankLines(arg.content)
        IN  /\ ~ret[1].raised
            /\ ret[1].value =
                IF M # {} THEN CanonicalLabel(Lower(Strip(lines[MaxOf(M)])))
                ELSE Capitalize(Lower(Strip(lines[MaxOf(N)])))

C5_Witness ==
    /\ ret # <<>>
    /\ arg.kind = "content"
    /\ LET lines == SplitLines(arg.content)
           M == LevelLines(arg.content)
       IN  /\ \E i, j \in M : i < j /\ Lower(Strip(lines[i])) # Lower(Strip(lines[j]))
           /\ ret[1] = Returned(CanonicalLabel(Lower(Strip(lines[MaxOf(M)]))))

CriticalKeywords == {kw_seizure, kw_loss_of_consciousness, kw_coma}

UrgentKeywords == {kw_vomiting, kw_blurred_vision, kw_slurred_speech}

ModerateKeywords == {kw_headache, kw_neck_pain}

LowKeywords == {kw_dizziness, kw_mild_pain, kw_tiredness}

Mentions(text, keywords) == \E kw \in keywords : Contains(Lower(text), kw)

\* position of the first occurrence of a keyword in the lower-cased text
FirstAt(text, kw) ==
    LET at == {i \in 1..(Len(text) - Len(kw) + 1) :
                    SubSeq(Lower(text), i, i + Len(kw) - 1) = kw}
    IN  CHOOSE i \in at : \A j \in at : i <= j

\* C6: rule_based_triage returns the first of the groups Critical, Urgent,
\* Moderate, Low that has a keyword in the text, wherever the keywords stand
\* ('seizure and tiredness': Critical).
C6_HighestUrgencyGroupWins ==
    ret # <<>> =>
        /\ Mentions(arg, CriticalKeywords) => ret[1] = Critical
        /\ (~Mentions(arg, CriticalKeywords) /\ Mentions(arg, UrgentKeywords)) =>
                ret[1] = Urgent
        /\ (/\ ~Mentions(arg, CriticalKeywords)
            /\ ~Mentions(arg, UrgentKeywords)
            /\ Mentions(arg, ModerateKeywords)) => ret[1] = Moderate
        /\ (/\ ~Mentions(arg, CriticalKeywords)
            /\ ~Mentions(arg, UrgentKeywords)
            /\ ~Mentions(arg, ModerateKeywords)
            /\ Mentions(arg, LowKeywords)) => ret[1] = Low
        /\ arg = t_seizure_and_tiredness => ret[1] = Critical

\* a Low keyword stands before the Critical keyword and Critical is returned
C6_Witness ==
    /\ ret = <<Critical>>
    /\ \E lo \in LowKeywords, cr \in CriticalKeywords :
        /\ Contains(Lower(arg), lo)
        /\ Contains(Lower(arg), cr)
        /\ FirstAt(arg, lo) < FirstAt(arg, cr)

\* C7: rule_based_triage returns Moderate for every text with none of the
\* eleven keywords, and always returns one of the four labels.
C7_DefaultModerate ==
    ret # <<>> =>
        /\ ret[1] \in Labels
        /\ ~Mentions(arg, CriticalKeywords \cup UrgentKeywords
                          \cup ModerateKeywords \cup LowKeywords) =>
                ret[1] = Moderate

C7_Witness ==
    /\ arg = t_generally_unwell
    /\ ret = <<Moderate>>

\* C8: in every result of flag_vitals, stored or not, any_flag is true
\* exactly when pulse_flag, systolic_flag or diastolic_flag is.
C8_AnyFlagIsOr ==
    ret # <<>> =>
        /\ ~ret[1].raised
        /\ LET f == ret[1].value.flags
           IN  f.any_flag <=> (f.pulse_flag \/ f.systolic_flag \/ f.diastolic_flag)

\* the store failed and the diastolic flag alone is raised
C8_Witness ==
    /\ ret # <<>>
    /\ ret[1].store = "raise"
    /\ LET f == ret[1].value.flags
       IN  f.diastolic_flag /\ ~f.pulse_flag /\ ~f.systolic_flag /\ f.any_flag

\* C9: for every valid reading pulse_flag is set exactly outside 60..100,
\* systolic_flag exactly outside 90..160 and diastolic_flag exactly outside
\* 60..100 (pulse 60 unflagged, 59 flagged; systolic 160 unflagged, 161
\* flagged; 120/180/95 gives true, true, false, true).
C9_Thresholds ==
    (ret # <<>> /\ ValidReading(arg)) =>
        LET f == ret[1].value.flags
        IN  /\ f.pulse_flag <=> arg.pulse \notin 60..100
            /\ f.systolic_flag <=> arg.systolicBP \notin 90..160
            /\ f.diastolic_flag <=> arg.diastolicBP \notin 60..100
            /\ arg.pulse = 60 => ~f.pulse_flag
            /\ arg.pulse = 59 => f.pulse_flag
            /\ arg.systolicBP = 160 => ~f.systolic_flag
            /\ arg.systolicBP = 161 => f.systolic_flag
            /\ arg = Reading(120, 180, 95) =>
                f = [pulse_flag |-> TRUE, systolic_flag |-> TRUE,
                     diastolic_flag |-> FALSE, any_flag |-> TRUE]

C9_Witness ==
    /\ ret # <<>>
    /\ arg = Reading(60, 161, 100)
    /\ ret[1].value.flags =
        [pulse_flag |-> FALSE, systolic_flag |-> TRUE,
         diastolic_flag |-> FALSE, any_flag |-> TRUE]

\* C10: when use_ai is false, triage_patient never calls the AI provider and
\* the label it returns is rule_based_triage of the symptom text.
C10_NoProviderWithoutAi ==
    \A s \in Slots :
        (TriageCall(s) /\ ~calls[s].use_ai) =>
            /\ calls[s].pc # "call_groq"
            /\ calls[s].groq = "not_called"
            /\ calls[s].groq_calls = 0
            /\ Returned_(s) =>
                /\ calls[s].result[1].triage_level =
                        rule_based_triage(calls[s].symptoms_text)
                /\ calls[s].symptoms_text = t_mild_headache =>
                        calls[s].result[1].triage_level = Moderate
                /\ calls[s].symptoms_text = t_seizure_and_tiredness =>
                        calls[s].result[1].triage_level = Critical

C10_Witness ==
    \E s \in Slots :
        /\ TriageCall(s) /\ ~calls[s].use_ai /\ Returned_(s)
        /\ calls[s].groq_calls = 0
        /\ calls[s].symptoms_text = t_seizure_and_tiredness
        /\ calls[s].result[1].triage_level = Critical

\* the request the API layer has answered, and the core call it made
AnsweredAt(endpoint) == http.phase = "done" /\ http.endpoint = endpoint

CoreCall == http.core[1]

ResponseOf == http.response[1]

\* C11: an AI provider failure is not surfaced by POST /api/triage: when
\* the provider fails and the insert succeeds the response is a success with
\* the rule-based label, a record id and no error.
C11_AiFailureNotSurfaced ==
    (/\ AnsweredAt("POST /api/triage")
     /\ http.core # <<>>
     /\ CoreCall.groq = "raised") =>
        /\ ResponseOf.status = 200
        /\ ResponseOf.body.triage_level \in Labels
        /\ http.request.symptoms = t_mild_headache =>
                ResponseOf.body.triage_level = Moderate
        /\ CoreCall.store = "ok" =>
                /\ ResponseOf.body.record_id # None
                /\ ResponseOf.body.error = JsonNull

C11_Witness ==
    /\ AnsweredAt("POST /api/triage")
    /\ http.core # <<>>
    /\ CoreCall.groq = "raised"
    /\ CoreCall.store = "ok"
    /\ ResponseOf.status = 200
    /\ ResponseOf.body.triage_level = Moderate
    /\ ResponseOf.body.record_id = triage_table[Len(triage_table)].id

\* the flags of a reading, by the intervals of normal values
ExpectedFlags(v) ==
    LET p == v.pulse \notin 60..100
        s == v.systolicBP \notin 90..160
        d == v.diastolicBP \notin 60..100
    IN  [pulse_flag |-> p, systolic_flag |-> s, diastolic_flag |-> d,
         any_flag |-> (p \/ s \/ d)]

\* C12: if the insert fails during a vitals request, the request is answered
\* as a success with the four flags of the reading, record_id None and a
\* non-null error.
C12_VitalsStoreFailureIsSuccess ==
    (/\ AnsweredAt("POST /api/vitals")
     /\ http.core # <<>>
     /\ CoreCall.store \in {"raise", "no_row"}) =>
        /\ ResponseOf.status = 200
        /\ ResponseOf.body.flags =
            ExpectedFlags(Reading(http.request.pulse, http.request.systolicBP,
                                  http.request.diastolicBP))
        /\ ResponseOf.body.record_id = None
        /\ ResponseOf.body.error # JsonNull
        /\ ResponseOf.body.error = StoreErrorMarker

C12_Witness ==
    /\ AnsweredAt("POST /api/vitals")
    /\ http.core # <<>>
    /\ CoreCall.store = "raise"
    /\ ResponseOf.status = 200
    /\ ResponseOf.body.flags =
        [pulse_flag |-> TRUE, systolic_flag |-> TRUE,
         diastolic_flag |-> FALSE, any_flag |-> TRUE]
    /\ ResponseOf.body.record_id = None
    /\ ResponseOf.body.error = StoreErrorMarker

\* C13: an unexpected internal error while handling a request is answered
\* with a generic server error (HTTP 500) whose body carries no detail of the
\* underlying error.
C13_ServerErrorHasNoDetail ==
    (http.phase = "done" /\ http.response # <<>> /\ ResponseOf.status = 500) =>
        /\ ResponseOf.body.error = ""
        /\ ResponseOf.body = general_exception_handler("").body

\* a request was rejected by validation: HTTP 422, and the core was not entered
RejectedAt(endpoint) ==
    /\ AnsweredAt(endpoint)
    /\ ResponseOf.status = 422

\* the core was not entered and nothing was stored for the request
NothingRan ==
    /\ http.core = <<>>
    /\ calls[1] = IdleCall
    /\ triage_table = <<>>
    /\ vitals_table = <<>>
    /\ clock = 1

\* a request passed validation: the core is running or has answered
AcceptedAt(endpoint) ==
    /\ http.endpoint = endpoint
    /\ \/ http.phase = "core"
       \/ http.phase = "done" /\ ResponseOf.status # 422

\* C14: POST /api/triage accepts symptoms only if their length after
\* trimming surrounding whitespace is between 5 and 2000 characters; shorter
\* after trimming is rejected before the orchestrator runs.
C14_AcceptedOnlyIfTrimmedLengthInRange ==
    /\ AcceptedAt("POST /api/triage") =>
            Len(Strip(http.request.symptoms)) \in 5..2000
    /\ (/\ http.endpoint = "POST /api/triage"
        /\ Len(Strip(http.request.symptoms)) < 5) =>
            RejectedAt("POST /api/triage") /\ NothingRan

\* C15: POST /api/vitals rejects a request when the pulse is outside 30..250,
\* the systolic pressure outside 60..300, the diastolic pressure outside
\* 30..200, or the diastolic pressure is not below the systolic one, before
\* flag_vitals runs and without an insert; every other reading is accepted.
C15_VitalsValidation ==
    http.endpoint = "POST /api/vitals" =>
        LET b == http.request
            valid == /\ b.pulse \in 30..250
                     /\ b.systolicBP \in 60..300
                     /\ b.diastolicBP \in 30..200
                     /\ b.diastolicBP < b.systolicBP
        IN  IF valid
            THEN /\ AcceptedAt("POST /api/vitals")
                 /\ http.phase = "core" => calls[1].fn = "flag_vitals"
                 /\ http.phase = "done" => http.core # <<>>
            ELSE RejectedAt("POST /api/vitals") /\ NothingRan

C15_Witness ==
    /\ RejectedAt("POST /api/vitals")
    /\ http.request.pulse = 85
    /\ http.request.systolicBP = 80
    /\ http.request.diastolicBP = 80
    /\ NothingRan

\* C16: POST /api/triage rejects symptoms that contain, as a
\* case-insensitive substring, a PII marker such as 'ssn' or 'credit card';
\* such a request reaches neither the provider nor the store.
C16_PiiRejected ==
    (/\ http.endpoint = "POST /api/triage"
     /\ \E marker \in {pii_ssn, pii_credit_card, pii_social_security,
                       pii_phone_number} :
            Contains(Lower(http.request.symptoms), marker)) =>
        /\ RejectedAt("POST /api/triage")
        /\ NothingRan
        /\ calls[1].groq_calls = 0
        /\ calls[1].insert_calls = 0

C16_Witness ==
    /\ RejectedAt("POST /api/triage")
    /\ http.request.symptoms = in_my_SSN
    /\ Len(in_my_SSN) \in 5..2000
    /\ NothingRan

RecentEndpoints == {"GET /api/triage/recent", "GET /api/vitals/recent"}

TableOf(endpoint) ==
    IF endpoint = "GET /api/triage/recent" THEN "triage" ELSE "vitals"

\* C17: the recent-record endpoints answer a limit outside 1..100 with HTTP
\* 400, not a 500, and without a store query; a limit in 1..100 is passed to
\* the store query unchanged.
C17_LimitChecked ==
    (http.phase = "done" /\ http.endpoint \in RecentEndpoints) =>
        IF http.request.limit \in 1..100
        THEN /\ Len(http.queries) = 1
             /\ http.queries[1].query.limit = http.request.limit
             /\ http.queries[1].query.table = TableOf(http.endpoint)
             /\ ResponseOf.status # 400
        ELSE /\ ResponseOf.status = 400
             /\ http.queries = <<>>

C17_Witness ==
    /\ AnsweredAt("GET /api/vitals/recent")
    /\ http.request.limit = 101
    /\ ResponseOf.status = 400
    /\ http.queries = <<>>

C17_WitnessInRange ==
    /\ AnsweredAt("GET /api/triage/recent")
    /\ http.request.limit = 100
    /\ http.queries[1].query.limit = 100

\* the rows of the table an endpoint reads
RowsOf(endpoint) ==
    IF endpoint = "GET /api/triage/recent" THEN triage_table ELSE vitals_table

\* C18: a recent-records query with limit N returns at most N records of the
\* table, the most recently created first, and the endpoint reports as count
\* the number of records returned.
C18_MostRecentFirst ==
    (/\ http.phase = "done"
     /\ http.endpoint \in RecentEndpoints
     /\ http.queries # <<>>
     /\ http.queries[1].outcome = "ok") =>
        LET records == ResponseOf.body.records
            rows == RowsOf(http.endpoint)
            N == http.request.limit
        IN  /\ ResponseOf.status = 200
            /\ Len(records) <= N
            /\ Len(records) = IF Len(rows) < N THEN Len(rows) ELSE N
            /\ \A i \in 1..Len(records) :
                    records[i] = rows[Len(rows) + 1 - i]
            /\ \A i \in 1..Len(records), j \in 1..Len(records) :
                    i < j => records[i].created_at.at > records[j].created_at.at
            /\ ResponseOf.body.count = Len(records)

C18_Witness ==
    /\ AnsweredAt("GET /api/triage/recent")
    /\ http.queries # <<>>
    /\ http.queries[1].outcome = "ok"
    /\ http.request.limit = 2
    /\ Len(triage_table) = 2
    /\ ResponseOf.body.count = 2
    /\ ResponseOf.body.records = <<triage_table[2], triage_table[1]>>

C18_WitnessLimited ==
    /\ AnsweredAt("GET /api/triage/recent")
    /\ http.queries # <<>>
    /\ http.queries[1].outcome = "ok"
    /\ http.request.limit = 1
    /\ Len(triage_table) = 2
    /\ ResponseOf.body.records = <<triage_table[2]>>

\* C19: when the store query fails, get_recent_triage_records and
\* get_recent_vitals_records return an empty list, and the endpoints answer
\* with a success and count 0.
C19_QueryFailureIsEmpty ==
    (/\ http.phase = "done"
     /\ http.endpoint \in RecentEndpoints
     /\ http.queries # <<>>
     /\ http.queries[1].outcome = "raise") =>
        /\ get_recent_records(TableOf(http.endpoint), http.request.limit,
                              "raise") = Returned(<<>>)
        /\ ResponseOf.status = 200
        /\ ResponseOf.body.records = <<>>
        /\ ResponseOf.body.count = 0

C19_Witness ==
    /\ AnsweredAt("GET /api/vitals/recent")
    /\ http.queries # <<>>
    /\ http.queries[1].outcome = "raise"
    /\ Len(vitals_table) >= 1
    /\ ResponseOf.status = 200
    /\ ResponseOf.body.count = 0

\* the label a triage call gets when it runs alone with the given input and
\* provider outcome (<<>>: the provider is not called)
SoloLabel ==
    [ symptoms_text \in {call[1] : call \in TriageCalls},
      use_ai \in BOOLEAN,
      outcome \in {<<>>} \cup {<<o>> : o \in ProviderOutcomes} |->
        IF use_ai /\ outcome # <<>> /\ ~call_groq(outcome[1]).raised
        THEN call_groq(outcome[1]).value
        ELSE rule_based_triage(symptoms_text) ]

\* C20: concurrent requests do not interact: the label or flags of every
\* finished call are those the same call gets alone with the same input and
\* the same provider and store outcomes, whatever the other calls do.
C20_CallsDoNotInteract ==
    \A s \in Slots :
        (calls[s].pc = "done" /\ ~calls[s].raised) =>
            LET c == calls[s]
                result == c.result[1]
            IN  /\ c.fn = "triage_patient" =>
                    /\ result.triage_level =
                        SoloLabel[c.symptoms_text, c.use_ai, c.groq_outcome]
                    /\ c.store = "ok" =>
                        /\ result.data[1].triage_level = result.triage_level
                        /\ result.data[1].symptoms = c.symptoms_text
                /\ c.fn = "flag_vitals" =>
                    /\ result.flags = ExpectedFlags(c.vitals)
                    /\ c.store = "ok" =>
                        result.data[1].pulse = c.vitals.pulse
                /\ (c.store = "ok") = (result.record_id # None)

\* a call that started first is still before its insert while a later call
\* has finished with another label
C20_Witness ==
    /\ calls[1].pc = "insert"
    /\ calls[1].fn = "triage_patient"
    /\ calls[2].pc = "done"
    /\ calls[2].fn = "triage_patient"
    /\ ~calls[2].raised
    /\ calls[2].groq_outcome # <<>>
    /\ calls[2].result[1].triage_level # calls[1].triage_level
    /\ calls[2].result[1].triage_level =
        SoloLabel[calls[2].symptoms_text, calls[2].use_ai, calls[2].groq_outcome]

\* the call of the single-call specification and its result
Solo == calls[1]

SoloResult == calls[1].result[1]

SoloReturned == calls[1].pc = "done" /\ ~calls[1].raised

\* C21: within one triage request the provider is called at most once, the
\* rule-based classifier at most once, and exactly one insert is attempted;
\* neither a failed provider call nor a failed insert is retried.
C21_NoRetry ==
    Solo.fn = "triage_patient" =>
        /\ Solo.groq_calls <= 1
        /\ Solo.rule_calls <= 1
        /\ Solo.insert_calls <= 1
        /\ Solo.pc \in {"call_groq", "insert", "done"}
        /\ Solo.pc = "done" => Solo.insert_calls = 1
        /\ Solo.pc = "insert" => Solo.insert_calls = 0
        /\ Solo.groq = "raised" => Solo.groq_calls = 1 /\ Solo.pc # "call_groq"
        /\ Solo.store \in {"raise", "no_row"} =>
                Solo.insert_calls = 1 /\ Solo.pc = "done"

C21_Witness ==
    /\ Solo.fn = "triage_patient"
    /\ Solo.pc = "done"
    /\ Solo.groq = "raised"
    /\ Solo.store = "raise"
    /\ Solo.groq_calls = 1
    /\ Solo.rule_calls = 1
    /\ Solo.insert_calls = 1

\* C23: the timestamp of a triage or vitals result is the created_at the
\* store assigned when the insert succeeded, and the wall-clock time only
\* when the insert failed; every result has a timestamp.
C23_TimestampSource ==
    SoloReturned =>
        /\ "timestamp" \in DOMAIN SoloResult
        /\ Solo.store = "ok" =>
            /\ SoloResult.timestamp = SoloResult.data[1].created_at
            /\ SoloResult.timestamp.by = "store"
        /\ Solo.store # "ok" => SoloResult.timestamp.by = "datetime.now"

C23_Witness ==
    /\ SoloReturned
    /\ Solo.fn = "triage_patient"
    /\ Solo.store = "ok"
    /\ SoloResult.timestamp = triage_table[1].created_at

C23_WitnessFailed ==
    /\ SoloReturned
    /\ Solo.fn = "flag_vitals"
    /\ Solo.store = "raise"
    /\ SoloResult.timestamp.by = "datetime.now"

\* the insert of triage_patient comes after the choice of the label
InsertAfterLabel ==
    Solo.fn = "triage_patient" =>
        /\ Solo.pc = "insert" => Solo.triage_level # <<>> /\ Solo.insert_calls = 0
        /\ Solo.insert_calls > 0 => Solo.triage_level # <<>>
        /\ Solo.triage_level = <<>> => triage_table = <<>>

\* C25 as stated: the insert comes after the choice of the label, and the
\* record submitted holds the label returned, the symptom text and the
\* patient metadata the orchestrator received, unmodified.
C25_RecordIsInputUnmodified ==
    /\ InsertAfterLabel
    /\ (SoloReturned /\ Solo.fn = "triage_patient" /\ Solo.store = "ok") =>
        /\ triage_table[1].triage_level = SoloResult.triage_level
        /\ triage_table[1].symptoms = Solo.symptoms_text
        /\ triage_table[1].patient_info = Solo.patient_info_arg

\* C25: the insert comes after the choice of the label, and the record
\* submitted holds the label returned, the symptom text as received and the
\* patient metadata as received, an absent (None) metadata being stored as
\* the empty mapping.
C25_RecordHoldsLabelAndInput ==
    /\ InsertAfterLabel
    /\ (SoloReturned /\ Solo.fn = "triage_patient" /\ Solo.store = "ok") =>
        /\ triage_table[1].triage_level = SoloResult.triage_level
        /\ triage_table[1].symptoms = Solo.symptoms_text
        /\ triage_table[1].patient_info =
            (IF Solo.patient_info_arg = NoPatientInfo THEN EmptyPatientInfo
             ELSE Solo.patient_info_arg)
        /\ SoloResult.data[1] = triage_table[1]

C25_Witness ==
    /\ SoloReturned
    /\ Solo.fn = "triage_patient"
    /\ Solo.store = "ok"
    /\ Solo.patient_info_arg = AgePatientInfo
    /\ triage_table[1].patient_info = AgePatientInfo
    /\ triage_table[1].symptoms = t_seizure_and_tiredness
    /\ triage_table[1].triage_level = Critical

\* C28: in every result of triage_patient and flag_vitals record_id is None
\* exactly when the error field is present.
C28_RecordIdXorError ==
    SoloReturned =>
        /\ (SoloResult.record_id = None) <=> (SoloResult.error # Absent)
        /\ (SoloResult.record_id = None) <=> (Solo.store # "ok")

C28_Witness ==
    /\ SoloReturned
    /\ Solo.fn = "flag_vitals"
    /\ Solo.store = "raise"
    /\ SoloResult.record_id = None
    /\ SoloResult.error = StoreErrorMarker

C28_WitnessStored ==
    /\ SoloReturned
    /\ Solo.fn = "triage_patient"
    /\ SoloResult.record_id # None
    /\ SoloResult.error = Absent

\* C29: the use_ai value stored with a triage record is the flag of the
\* request, not the path taken: after an AI failure and fallback the record
\* has use_ai true although its label is the rule-based one.
C29_StoredUseAiIsRequestFlag ==
    (SoloReturned /\ Solo.fn = "triage_patient" /\ Solo.store = "ok") =>
        /\ triage_table[1].use_ai = Solo.use_ai
        /\ SoloResult.data[1].use_ai = Solo.use_ai
        /\ (Solo.use_ai /\ Solo.groq = "raised") =>
            /\ triage_table[1].use_ai = TRUE
            /\ Solo.rule_calls = 1

C29_Witness ==
    /\ SoloReturned
    /\ Solo.fn = "triage_patient"
    /\ Solo.store = "ok"
    /\ Solo.groq = "raised"
    /\ Solo.rule_calls = 1
    /\ triage_table[1].use_ai = TRUE
    /\ triage_table[1].symptoms = t_seizure_and_tiredness
    /\ triage_table[1].triage_level = Critical

\* C30: when the insert returns without raising but with no row,
\* triage_patient and flag_vitals treat it as a persistence failure: they
\* return the computed label or flags with record_id None and the error
\* marker, and do not raise.
C30_NoRowIsPersistenceFailure ==
    (Solo.pc = "done" /\ Solo.store = "no_row") =>
        /\ ~Solo.raised
        /\ Solo.result # <<>>
        /\ SoloResult.record_id = None
        /\ SoloResult.error = StoreErrorMarker
        /\ SoloResult.data = <<>>
        /\ Solo.fn = "triage_patient" =>
                SoloResult.triage_level = Solo.triage_level
        /\ Solo.fn = "flag_vitals" =>
                SoloResult.flags = ExpectedFlags(Solo.vitals)
        /\ triage_table = <<>> /\ vitals_table = <<>>

C30_Witness ==
    /\ Solo.pc = "done"
    /\ Solo.store = "no_row"
    /\ Solo.fn = "flag_vitals"
    /\ ~Solo.raised
    /\ SoloResult.record_id = None
    /\ SoloResult.error = StoreErrorMarker
    /\ SoloResult.flags.any_flag

\* C26: every accepted triage or vitals request eventually returns a
\* result, provided each outbound call eventually returns or fails: no
\* combination of provider and store failures leaves a request unanswered.
C26_AcceptedRequestAnswered ==
    \A n \in 1..MaxCalls :
        (http.phase = "core" /\ http.served = n)
            ~> (http.phase = "done" /\ http.served = n /\ http.core # <<>>)

C26_Witness ==
    /\ AnsweredAt("POST /api/triage")
    /\ http.core # <<>>
    /\ CoreCall.groq = "raised"
    /\ CoreCall.store = "raise"
    /\ CoreCall.pc = "done"
    /\ ResponseOf.status = 200

\* a text with the case of its letters changed: all upper case, the case of
\* every letter swapped, the case of every second character changed
Upper(s) == [i \in 1..Len(s) |-> UpperChar(s[i])]

SwapChar(c) == IF LowerChar(c) # c THEN LowerChar(c) ELSE UpperChar(c)

SwapCase(s) == [i \in 1..Len(s) |-> SwapChar(s[i])]

Alternate(s) == [i \in 1..Len(s) |-> IF i % 2 = 0 THEN SwapChar(s[i]) ELSE s[i]]

CaseVariants(s) == {s, Lower(s), Upper(s), SwapCase(s), Alternate(s), Capitalize(s)}

\* str.upper() on the characters of the texts: U+017F becomes "S"
PyUpper(s) ==
    [i \in 1..Len(s) |-> IF s[i] = "U+017F" THEN "S" ELSE UpperChar(s[i])]

\* C27 as stated: changing the case of any characters of the text never
\* changes the label, and a keyword inside a longer word still matches.
C27_AnyCaseChangeKeepsLabel ==
    ret # <<>> =>
        /\ \A variant \in CaseVariants(arg) \cup {PyUpper(arg)} :
                rule_based_triage(variant) = ret[1]
        /\ (\E variant \in CaseVariants(fr_comatose) : Contains(arg, variant)) =>
                ret[1] = Critical

\* C27: rule_based_triage matches keywords as plain substrings of the
\* lower-cased text: changing the case of ASCII letters of the text never
\* changes the label, and a keyword inside a longer word still matches.
C27_CaseInsensitiveSubstring ==
    ret # <<>> =>
        /\ \A variant \in CaseVariants(arg) : rule_based_triage(variant) = ret[1]
        /\ (\E variant \in CaseVariants(fr_comatose) : Contains(arg, variant)) =>
                ret[1] = Critical

C27_Witness ==
    /\ ret = <<Critical>>
    /\ arg = JoinWith(<<fr_SEIZURE, kw_tiredness>>, <<" ">>)
    /\ rule_based_triage(Lower(arg)) = Critical

C27_WitnessEmbedded ==
    /\ ret = <<Critical>>
    /\ arg = JoinWith(<<fr_comatose, kw_headache>>, <<" ">>)

\* some required setting is absent from the environment of the process
SomeSettingMissing ==
    \E name \in {"SUPABASE_URL", "SUPABASE_ANON_KEY", "GROQ_API_KEY"} :
        arg[name] \in {Unset, ""}

\* no request was ever taken and nothing ran
NeverServed ==
    /\ http.served = 0
    /\ http.endpoint = "none"
    /\ http.response = <<>>
    /\ \A s \in Slots : calls[s] = IdleCall
    /\ triage_table = <<>>
    /\ vitals_table = <<>>

\* C24: if any of the three required settings (store URL, store access key,
\* AI provider API key) is missing, start-up fails fatally and no request is
\* ever served; nothing else in the core is fatal.
C24_MissingSettingIsFatal ==
    /\ SomeSettingMissing =>
        /\ http.phase \in {"importing", "fatal"}
        /\ NeverServed
    /\ http.phase = "fatal" => SomeSettingMissing /\ ret # <<>>
    /\ ~SomeSettingMissing => http.phase # "fatal" /\ ~calls[1].raised

C24_Witness ==
    /\ http.phase = "fatal"
    /\ arg[SUPABASE_URL] = "value"
    /\ arg[SUPABASE_ANON_KEY] = "value"
    /\ arg[GROQ_API_KEY] = Unset
    /\ ret[1].setting = GROQ_API_KEY
    /\ NeverServed

C24_WitnessServing ==
    /\ ~SomeSettingMissing
    /\ http.phase = "done"
    /\ http.served = 1

\* the most recent n rows of a table, and the sum of a dictionary of counts
MostRecent(table, n) ==
    IF Len(table) <= n THEN table ELSE SubSeq(table, Len(table) - n + 1, Len(table))

RECURSIVE SumOf(_, _)
SumOf(f, keys) ==
    IF keys = {} THEN 0
    ELSE LET k == CHOOSE x \in keys : TRUE IN f[k] + SumOf(f, keys \ {k})

StatsAnswered ==
    /\ AnsweredAt("GET /api/stats")
    /\ http.queries[1].outcome = "ok"
    /\ http.queries[2].outcome = "ok"

\* the counts of the statistics, without the percentage
StatsCounts ==
    LET t == ResponseOf.body.triage_stats
        v == ResponseOf.body.vitals_stats
        recent_triage == MostRecent(triage_table, 100)
        recent_vitals == MostRecent(vitals_table, 100)
    IN  /\ ResponseOf.status = 200
        /\ t.total_assessments = Len(recent_triage)
        /\ t.total_assessments <= 100
        /\ \A level \in DOMAIN t.levels_breakdown :
              t.levels_breakdown[level] =
                Cardinality({i \in 1..Len(recent_triage) :
                                recent_triage[i].triage_level = level})
        /\ \A i \in 1..Len(recent_triage) :
              recent_triage[i].triage_level \in DOMAIN t.levels_breakdown
        /\ SumOf(t.levels_breakdown, DOMAIN t.levels_breakdown) = t.total_assessments
        /\ v.total_checks = Len(recent_vitals)
        /\ v.flagged_cases =
              Cardinality({i \in 1..Len(recent_vitals) : recent_vitals[i].any_flag})
        /\ v.flagged_cases <= v.total_checks
        /\ v.total_checks = 0 => v.flag_percentage = 0

\* C22 as stated: per-label counts over the most recent 100 triage records
\* that sum to total_assessments, flagged_cases <= total_checks over the most
\* recent 100 vitals records, and flag_percentage = 100 * flagged_cases /
\* total_checks, 0 when there are no vitals records (flag_percentage is in
\* hundredths of a percent).
C22_StatsExactPercentage ==
    StatsAnswered =>
        /\ StatsCounts
        /\ LET v == ResponseOf.body.vitals_stats
           IN  v.total_checks > 0 =>
                 v.flag_percentage * v.total_checks = 100 * 100 * v.flagged_cases

\* C22: per-label counts over the most recent 100 triage records that sum to
\* total_assessments, flagged_cases <= total_checks over the most recent 100
\* vitals records, and flag_percentage is 100 * flagged_cases / total_checks
\* rounded to two decimal places, 0 when there are no vitals records.
C22_StatsRoundedPercentage ==
    StatsAnswered =>
        /\ StatsCounts
        /\ LET v == ResponseOf.body.vitals_stats
               exact == 100 * 100 * v.flagged_cases
               shown == v.flag_percentage * v.total_checks
           IN  v.total_checks > 0 =>
                 /\ 2 * (shown - exact) <= v.total_checks
                 /\ 2 * (exact - shown) <= v.total_checks

C22_Witness ==
    /\ StatsAnswered
    /\ Len(vitals_table) = 3
    /\ ResponseOf.body.vitals_stats.total_checks = 3
    /\ ResponseOf.body.vitals_stats.flagged_cases = 2
    /\ ResponseOf.body.vitals_stats.flag_percentage = 6667
    /\ ResponseOf.body.triage_stats.total_assessments = 3
    /\ DOMAIN ResponseOf.body.triage_stats.levels_breakdown = {Moderate, ln_High}
    /\ ResponseOf.body.triage_stats.levels_breakdown[Moderate] = 2

C22_WitnessLimit ==
    /\ StatsAnswered
    /\ Len(triage_table) = 101
    /\ ResponseOf.body.triage_stats.total_assessments = 100
    /\ DOMAIN ResponseOf.body.triage_stats.levels_breakdown = {Moderate}
    /\ ResponseOf.body.vitals_stats.flagged_cases = 0

C22_WitnessEmpty ==
    /\ StatsAnswered
    /\ vitals_table = <<>>
    /\ ResponseOf.body.vitals_stats.flag_percentage = 0

====
